---- MODULE Spec2Model ----
(***************************************************************************)
(* LVISDetection (src/mmeval/metrics/lvis_detection.py): the prediction    *)
(* buffer and its operations add / add_predictions / __call__ /            *)
(* compute_metric, and the greedy matcher the evaluation delegates to.     *)
(*                                                                         *)
(* A float is [kind |-> "float", num, den], the double nearest to          *)
(* num / (den * 100000); [kind |-> "nan"] is float('nan').                 *)
(* An OrderedDict is a sequence of [k, v] entries in insertion order.      *)
(***************************************************************************)
EXTENDS Integers, Sequences, FiniteSets, TLC

\* ---------------------------------------------------------------- bounds
\* longest sequence of records handed to one add / __call__
MaxPreds == 2
\* longest accumulated buffer the model lets add build
MaxBuf == 2
\* number of categories of the ground-truth index
NumCats == 2
\* IoU thresholds and recall levels of the engine's precision array
NumThrs == 2
NumRecalls == 2
\* detections and ground-truth instances of one (image, category) unit
MaxDt == 2
MaxGt == 1

\* ------------------------------------------------------------- constants
\* proposal_nums: int = 300
ProposalNums == 300
\* max-detections cutoff of the engine when the wrapper does not set it
EngineMaxDets == 300

\* ------------------------------------------------------------ Optional[T]
None == [isNone |-> TRUE, val |-> <<>>]
Some(x) == [isNone |-> FALSE, val |-> x]

Range(s) == {s[i] : i \in 1..Len(s)}

\* ------------------------------------------------------------ prediction records
\* a dict record (img_id, number of labels/boxes/scores) or a non-dict object
Dicts == {[type |-> "dict", img_id |-> 1, labels |-> 1],
          [type |-> "dict", img_id |-> 2, labels |-> 0]}
NonDicts == {[type |-> "str", img_id |-> 0, labels |-> 0]}
Records == Dicts \cup NonDicts

\* isinstance(prediction, dict)
IsDict(p) == p.type = "dict"

SeqsUpTo(S, n) == UNION {[1..k -> S] : k \in 0..n}

\* ------------------------------------------------------------ floats
Float(n) == [kind |-> "float", num |-> n, den |-> 1]
NaN == [kind |-> "nan"]

RECURSIVE GCD(_, _)
GCD(a, b) == IF b = 0 THEN a ELSE GCD(b, a % b)

Abs(n) == IF n < 0 THEN 0 - n ELSE n

\* the rational n/d in lowest terms
Ratio(n, d) ==
    LET g == GCD(Abs(n), d)
    IN  IF n = 0 THEN Float(0)
        ELSE [kind |-> "float", num |-> n \div g, den |-> d \div g]

\* ------------------------------------------------------------ binary64
\* A float [num, den] is held by the program as the double nearest to
\* num / (den * 100000).  Python rounds that double, not the decimal, so a
\* decimal tie goes to the side the double arithmetic lands on.  The operators
\* below follow the significand bits that decide it.

Sign(n) == IF n > 0 THEN 1 ELSE IF n < 0 THEN -1 ELSE 0

\* floor(log2(a / lo)) for a > 0, lo > 0
RECURSIVE Exponent(_, _)
Exponent(a, lo) ==
    IF a < lo THEN Exponent(2 * a, lo) - 1
    ELSE IF a >= 2 * lo THEN Exponent(a, 2 * lo) + 1
    ELSE 0

\* x * 2^t modulo m, four bits at a time (16 * m fits an integer)
RECURSIVE ShiftMod(_, _, _)
ShiftMod(x, t, m) ==
    IF t = 0 THEN x % m
    ELSE IF t < 4 THEN ShiftMod((2 * x) % m, t - 1, m)
    ELSE ShiftMod((16 * (x % m)) % m, t - 4, m)

\* R = a * 2^(47 - e) modulo 3125 * 2^15 is 3125 * (a / 100000) * 2^(52 - e):
\* the significand M (modulo 2^15) is R / 3125 rounded to nearest, and
\* a / 100000 = (M + rp / 3125) * 2^(e - 52)
SignificandOf(R, up) ==
    [M |-> ((R \div 3125) + up) % (2 ^ 15), rp |-> (R % 3125) - (3125 * up)]

\* the double nearest a / 100000 (a > 0)
NearestDouble(a) ==
    SignificandOf(ShiftMod(a, 47 - Exponent(a, 100000), 3125 * (2 ^ 15)),
                  IF 2 * (ShiftMod(a, 47 - Exponent(a, 100000), 3125) % 3125) > 3125
                  THEN 1 ELSE 0)

\* bits a product by 100 drops to fit 53 again, e the exponent of a / lo: 6
\* when the significand of a / lo is below 1.28, else 7
DropBitsAt(a, lo, e) ==
    IF (IF e >= 0 THEN 25 * a < 32 * lo * (2 ^ e)
        ELSE 25 * a * (2 ^ (0 - e)) < 32 * lo)
    THEN 6 ELSE 7

DropBits(a, lo) == DropBitsAt(a, lo, Exponent(a, lo))

\* the significand X = F + c kept and the error E = X * 2^s - P of a rounded
\* shift whose dropped bits are L
Carried(F, L, s, c) == [X |-> F + c, E |-> (c * (2 ^ s)) - L]

\* P / 2^s rounded to nearest, ties to even
RoundShift(P, s) ==
    Carried(P \div (2 ^ s), P % (2 ^ s), s,
            IF 2 * (P % (2 ^ s)) > 2 ^ s
               \/ (2 * (P % (2 ^ s)) = 2 ^ s /\ (P \div (2 ^ s)) % 2 = 1)
            THEN 1 ELSE 0)

\* d * 100 in double arithmetic, s bits dropped; rp is carried along
Product100(d, s) == [s |-> s, x |-> RoundShift(100 * d.M, s), rp |-> d.rp]

\* val * 100, val the double nearest a / 100000
Times100(a) == Product100(NearestDouble(a), DropBits(a, 100000))

\* sign of (the double val) - a / 100000
SideOfDouble(a) == Sign(0 - NearestDouble(a).rp)

SideOfProduct(p) == Sign((125 * p.x.E) - (4 * p.rp))

\* sign of (the double val * 100) - a / 1000
SideOfTimes100(a) == SideOfProduct(Times100(a))

SideOfSecondProduct(p, y) == Sign((5 * (2 ^ p.s) * y.E) + (500 * p.x.E) - (16 * p.rp))

SecondProduct(p, s) == SideOfSecondProduct(p, RoundShift(100 * p.x.X, s))

\* sign of (the double (val * 100) * 100) - a / 10
SideOfTimes10000(a) == SecondProduct(Times100(a), DropBits(a, 1000))

\* a value just above / just below / exactly at base + 1/2, rounded to nearest
\* with an exact tie to even
TieBreak(base, side) ==
    IF side > 0 THEN base + 1
    ELSE IF side < 0 THEN base
    ELSE IF base % 2 = 0 THEN base ELSE base + 1

\* n / d rounded to the nearest integer (n >= 0, d > 0, not a tie)
RoundNearestDiv(n, d) == ((2 * n) + d) \div (2 * d)

Signed(n, h) == IF n < 0 THEN 0 - h ELSE h

\* round(val * 100, 2) of a Python float in lowest terms, in hundredths: the
\* decimal string of the double val * 100, correctly rounded
RoundPercentOf(v) ==
    Signed(v.num,
           IF v.den = 1 /\ Abs(v.num) % 10 = 5
           THEN TieBreak(Abs(v.num) \div 10, SideOfTimes100(Abs(v.num)))
           ELSE RoundNearestDiv(Abs(v.num), 10 * v.den))

RoundPercent(val) == RoundPercentOf(Ratio(val.num, val.den))

\* round(ap * 100, 2) of a numpy float64 in lowest terms, in hundredths: numpy
\* computes rint((ap * 100) * 100) / 100
NpRoundPercentOf(v) ==
    Signed(v.num,
           IF v.den = 1 /\ Abs(v.num) % 10 = 5
           THEN TieBreak(Abs(v.num) \div 10, SideOfTimes10000(Abs(v.num)))
           ELSE RoundNearestDiv(Abs(v.num), 10 * v.den))

NpRoundPercent(val) == NpRoundPercentOf(Ratio(val.num, val.den))

\* f'{float(v):.3f}' of a float in lowest terms, in thousandths: the double
\* v, correctly rounded
RoundMilliOf(v) ==
    Signed(v.num,
           IF v.den = 1 /\ Abs(v.num) % 100 = 50
           THEN TieBreak(Abs(v.num) \div 100, SideOfDouble(Abs(v.num)))
           ELSE RoundNearestDiv(Abs(v.num), 100 * v.den))

RoundMilli(val) == RoundMilliOf(Ratio(val.num, val.den))

\* str() of a float that is a whole number of hundredths, sign given apart
PyFloatStr(neg, h) ==
    LET a  == Abs(h)
        fr == a % 100
        fs == IF fr % 10 = 0 THEN ToString(fr \div 10)
              ELSE IF fr < 10 THEN "0" \o ToString(fr)
              ELSE ToString(fr)
    IN  (IF neg THEN "-" ELSE "") \o ToString(a \div 100) \o "." \o fs

\* line 260: f'{round(val * 100, 2)}', val a Python float
PercentStr(val) ==
    IF val.kind = "nan" THEN "nan"
    ELSE PyFloatStr(val.num < 0, RoundPercent(val))

\* line 285: f'{round(ap * 100, 2)}', ap a numpy float64 (or float('nan'))
NpPercentStr(val) ==
    IF val.kind = "nan" THEN "nan"
    ELSE PyFloatStr(val.num < 0, NpRoundPercent(val))

\* line 240: float(f'{float(v):.3f}')
Round3(val) ==
    IF val.kind = "nan" THEN NaN
    ELSE Ratio(RoundMilli(val) * 100, 1)

\* ------------------------------------------------------------ OrderedDict
HasKey(d, k) == \E i \in 1..Len(d) : d[i].k = k

Get(d, k) == d[CHOOSE i \in 1..Len(d) : d[i].k = k].v

\* d[k] = v: a new key goes last, an old key keeps its place
DictSet(d, k, v) ==
    IF HasKey(d, k)
    THEN [i \in 1..Len(d) |-> IF d[i].k = k THEN [k |-> k, v |-> v] ELSE d[i]]
    ELSE Append(d, [k |-> k, v |-> v])

Keys(d) == [i \in 1..Len(d) |-> d[i].k]

\* ------------------------------------------------------------ ground-truth index
\* the LVIS index built once in __init__ (self._lvis_api = LVIS(local_path))
LvisApi == [ann_file |-> "lvis_v1_val.json"]

\* _lvis_api.get_cat_ids()
GetCatIds == [i \in 1..NumCats |-> i]

\* _lvis_api.get_img_ids()
GetImgIds == <<1, 2>>

\* _lvis_api.load_cats([catId])[0]["name"]
CatName(catId) == "c" \o ToString(catId)

\* ------------------------------------------------------------ configuration
MetricNames == {"bbox", "segm", "proposal"}

\* the metric lists a run is configured with
MetricConfigs == {<<"bbox">>, <<"proposal">>, <<"bbox", "segm">>,
                  <<"proposal", "bbox">>, <<"segm", "proposal">>}

\* f'AR@{n}', f'ARs@{n}', f'ARm@{n}', f'ARl@{n}'
ARNames(n) == <<"AR@" \o ToString(n), "ARs@" \o ToString(n),
                "ARm@" \o ToString(n), "ARl@" \o ToString(n)>>

APNames == <<"AP", "AP50", "AP75", "APs", "APm", "APl", "APr", "APc", "APf">>

\* the metric_items a run is configured with
ItemConfigs == {None, Some(<<"AP50", "APr">>)}

\* the argument combinations of __init__.  Lines 92-100 hand format_only and
\* outfile_prefix to the base constructor, which is not part of this source
\* file; format_only without a prefix is left out, as a pair that constructor
\* is not known to accept.
Configs ==
    {c \in [metrics : MetricConfigs, metric_items : ItemConfigs,
            classwise : BOOLEAN, format_only : BOOLEAN,
            outfile_prefix : {None, Some("work/prefix")},
            proposal_nums : {ProposalNums}] :
        c.format_only => ~c.outfile_prefix.isNone}

\* ------------------------------------------------------------ collaborators
RECURSIVE TotalLabels(_)
TotalLabels(results) ==
    IF results = <<>> THEN 0
    ELSE Head(results).labels + TotalLabels(Tail(results))

\* self.results2json(results, outfile_prefix): the number of detection entries
\* dumped to the file of each metric; keep[m] tells whether the conversion for
\* m retains the detections of the records
results2json(results, keep) ==
    [m \in MetricNames |-> IF keep[m] THEN TotalLabels(results) ELSE 0]

\* LVISResults(lvis_gt, result_files[metric]) raises IndexError on an empty file
LVISResultsRaises(ndets) == ndets = 0

\* metric values the engine's summarize() can produce (-1: nothing to average)
ValuePool == <<-100000, 0, 12345, 50000, 16650, 100000, 33333>>

MetricOffset(metric) ==
    CASE metric = "bbox" -> 0 [] metric = "segm" -> 2 [] metric = "proposal" -> 4

\* lvis_eval.get_results() after summarize(): nine AP items, then four AR items
\* named after the evaluator's max_dets
GetResults(metric, max_dets, seed) ==
    LET names == APNames \o ARNames(max_dets)
    IN  [i \in 1..Len(names) |->
            [k |-> names[i],
             v |-> ValuePool[((i + seed + MetricOffset(metric)) % Len(ValuePool)) + 1]]]

AreaRngs == <<"all", "small", "medium", "large">>

\* lvis_eval.eval['precision'], indexed (iou, recall, cls, area range); -1 marks
\* a cell with no sample.  The cells are multiples of 1/16, so their sums are
\* exact doubles and np.mean is the double nearest to the rational mean.
Precisions(seed) ==
    [c \in (1..NumThrs) \X (1..NumRecalls) \X (1..NumCats) \X (1..Len(AreaRngs)) |->
        LET t == c[1]
            r == c[2]
            mode == (seed + c[3] + c[4]) % 3
        IN  CASE mode = 0 -> -100000
              [] mode = 1 -> IF (t + r) % 2 = 0 THEN -100000 ELSE 12500 * (t + r)
              [] mode = 2 -> (6250 * t) + (12500 * r)]

Seeds == {0, 1, 2}

\* which metrics' files keep the detections of the records
KeepAll == [m \in MetricNames |-> TRUE]
KeepConfigs == {KeepAll, [m \in MetricNames |-> FALSE],
                [KeepAll EXCEPT !["bbox"] = FALSE],
                [KeepAll EXCEPT !["segm"] = FALSE]}

\* what the collaborators answer during one compute_metric: seed picks the
\* engine's summary values and its precision array
Envs == [keep : KeepConfigs, seed : Seeds]

\* the answers tried under a stateless call
CallEnvs == {[keep |-> KeepAll, seed |-> 1]}

\* ------------------------------------------------------------ compute_metric
\* one call on a collaborator, in the order compute_metric makes them
Ev(f, m) == [f |-> f, m |-> m]

\* line 225: metric_items = self.metric_items; `local` is what the local
\* variable held when the loop body was entered
LoadMetricItems_Stale(selfItems, local) ==
    IF local.isNone THEN selfItems ELSE local

LoadMetricItems(selfItems, local) == selfItems

\* `if k in metric_items`, kept in the order of the engine's results
SelectItems(got, items) == SelectSeq(got, LAMBDA e : e.k \in Range(items))

\* lines 238-241: the proposal branch stores each selected value under its
\* bare item name, rounded to three decimals
RECURSIVE RecordProposalResults(_, _)
RecordProposalResults(eval_results, sel) ==
    IF sel = <<>> THEN eval_results
    ELSE RecordProposalResults(
             DictSet(eval_results, Head(sel).k, Round3(Float(Head(sel).v))),
             Tail(sel))

\* lines 255-261, the loop alone: eval_results[f'{metric}_{metric_item}'] = val
RECURSIVE StoreDetValues(_, _, _)
StoreDetValues(eval_results, metric, sel) ==
    IF sel = <<>> THEN eval_results
    ELSE StoreDetValues(
             DictSet(eval_results, metric \o "_" \o Head(sel).k, Float(Head(sel).v)),
             metric, Tail(sel))

RecordDetResults_ListAll(eval_results, metric, got, items) ==
    DictSet(StoreDetValues(eval_results, metric, SelectItems(got, items)),
            metric \o "_result",
            [kind |-> "list",
             items |-> [i \in 1..Len(got) |-> PercentStr(Float(got[i].v))]])

\* lines 255-262: the values of the selected items and the parallel
\* f'{metric}_result' list of their percentage strings
RecordDetResults(eval_results, metric, got, items) ==
    LET sel == SelectItems(got, items)
    IN  DictSet(StoreDetValues(eval_results, metric, sel),
                metric \o "_result",
                [kind |-> "list",
                 items |-> [i \in 1..Len(sel) |-> PercentStr(Float(sel[i].v))]])

RECURSIVE SumSeq(_)
SumSeq(s) == IF s = <<>> THEN 0 ELSE Head(s) + SumSeq(Tail(s))

\* precisions[:, :, idx, area], flattened in row-major order
Slice(precisions, idx, area) ==
    [j \in 1..(NumThrs * NumRecalls) |->
        precisions[<<((j - 1) \div NumRecalls) + 1, ((j - 1) % NumRecalls) + 1,
                    idx, area>>]]

CategoryAP_ZeroWhenEmpty(precisions, idx) ==
    LET precision == SelectSeq(Slice(precisions, idx, 1), LAMBDA x : x > -100000)
    IN  IF Len(precision) > 0 THEN Ratio(SumSeq(precision), Len(precision))
        ELSE Float(0)

\* lines 278-283: precision = precisions[:, :, idx, 0]; precision[precision > -1];
\* np.mean(precision) if precision.size else nan
CategoryAP(precisions, idx) ==
    LET precision == SelectSeq(Slice(precisions, idx, 1), LAMBDA x : x > -100000)
    IN  IF Len(precision) > 0 THEN Ratio(SumSeq(precision), Len(precision))
        ELSE NaN

\* lines 271-289: per-category AP entries and the classwise list
RECURSIVE ClasswiseLoop(_, _, _, _, _, _)
ClasswiseLoop(eval_results, metric, cat_ids, precisions, idx, results_per_category) ==
    IF idx > Len(cat_ids)
    THEN DictSet(eval_results, metric \o "_classwise_result",
                 [kind |-> "pairs", items |-> results_per_category])
    ELSE LET nm == CatName(cat_ids[idx])
             ap == CategoryAP(precisions, idx)
         IN  ClasswiseLoop(
                 DictSet(eval_results, metric \o "_" \o nm \o "_precision", ap),
                 metric, cat_ids, precisions, idx + 1,
                 Append(results_per_category, <<nm, NpPercentStr(ap)>>))

\* lines 213-294: one pass of the loop body for `metric`; st carries
\* eval_results, the collaborator calls made so far, the local metric_items
\* and whether the loop was left by `break`
EvalMetric(self, metric, result_files, env, st) ==
    IF LVISResultsRaises(result_files[metric])
    THEN [st EXCEPT !.calls = @ \o <<Ev("LVISResults", metric), Ev("warning", metric)>>,
                    !.broke = TRUE]
    ELSE
      LET metric_items == LoadMetricItems(self.metric_items, st.metric_items)
          max_dets == IF metric = "proposal" THEN self.proposal_nums ELSE EngineMaxDets
          got == GetResults(metric, max_dets, env.seed)
          ran == st.calls \o <<Ev("LVISResults", metric), Ev("evaluate", metric),
                               Ev("accumulate", metric), Ev("summarize", metric)>>
      IN  IF metric = "proposal"
          THEN LET items == IF metric_items.isNone
                            THEN Some(ARNames(self.proposal_nums))
                            ELSE metric_items
               IN  [eval_results |-> RecordProposalResults(st.eval_results,
                                         SelectItems(got, items.val)),
                    calls |-> Append(ran, Ev("print_results", metric)),
                    metric_items |-> items,
                    broke |-> FALSE]
          ELSE LET items == IF metric_items.isNone THEN Some(APNames) ELSE metric_items
                   listed == RecordDetResults(st.eval_results, metric, got, items.val)
               IN  [eval_results |->
                        IF self.classwise
                        THEN ClasswiseLoop(listed, metric, self.cat_ids,
                                           Precisions(env.seed), 1, <<>>)
                        ELSE listed,
                    calls |-> Append(ran, Ev("print_results", metric)),
                    metric_items |-> items,
                    broke |-> FALSE]

\* line 212: for metric in self.metrics, left early by the break of line 220
RECURSIVE MetricLoop(_, _, _, _, _)
MetricLoop(self, result_files, env, i, st) ==
    IF i > Len(self.metrics) \/ st.broke THEN st
    ELSE MetricLoop(self, result_files, env, i + 1,
                    EvalMetric(self, self.metrics[i], result_files, env, st))

Cleanup_NotAfterBreak(created, st) ==
    IF st.broke
    THEN [calls |-> st.calls, tmp_dir |-> IF created THEN "created" ELSE "none"]
    ELSE [calls |-> IF created THEN Append(st.calls, Ev("cleanup", "")) ELSE st.calls,
          tmp_dir |-> IF created THEN "cleaned" ELSE "none"]

\* lines 295-296, after the loop however it was left:
\* if tmp_dir is not None: tmp_dir.cleanup()
Cleanup(created, st) ==
    [calls |-> IF created THEN Append(st.calls, Ev("cleanup", "")) ELSE st.calls,
     tmp_dir |-> IF created THEN "cleaned" ELSE "none"]

ComputeMetric_IgnoreFormatOnly(self, results, env) ==
    LET created == self.outfile_prefix.isNone
        cat_ids == IF Len(self.cat_ids) = 0 THEN GetCatIds ELSE self.cat_ids
        img_ids == IF Len(self.img_ids) = 0 THEN GetImgIds ELSE self.img_ids
        result_files == results2json(results, env.keep)
        st == MetricLoop([self EXCEPT !.cat_ids = cat_ids, !.img_ids = img_ids],
                         result_files, env, 1,
                         [eval_results |-> <<>>, calls |-> <<Ev("results2json", "")>>,
                          metric_items |-> None, broke |-> FALSE])
    IN  [eval_results |-> st.eval_results,
         calls |-> IF created THEN Append(st.calls, Ev("cleanup", "")) ELSE st.calls,
         tmp_dir |-> IF created THEN "cleaned" ELSE "none",
         cat_ids |-> cat_ids, img_ids |-> img_ids, result_files |-> result_files]

\* lines 188-297: compute_metric(results). tmp_dir is "none" when no temporary
\* directory was made, "created" while it exists, "cleaned" after cleanup().
\* cat_ids, when not yet set, comes from the very index the engine evaluates,
\* so the assertion of line 269 holds.
ComputeMetric(self, results, env) ==
    LET created == self.outfile_prefix.isNone
        cat_ids == IF Len(self.cat_ids) = 0 THEN GetCatIds ELSE self.cat_ids
        img_ids == IF Len(self.img_ids) = 0 THEN GetImgIds ELSE self.img_ids
        result_files == results2json(results, env.keep)
        st0 == [eval_results |-> <<>>, calls |-> <<Ev("results2json", "")>>,
                metric_items |-> None, broke |-> FALSE]
    IN  IF self.format_only
        THEN [eval_results |-> <<>>, calls |-> st0.calls,
              tmp_dir |-> IF created THEN "created" ELSE "none",
              cat_ids |-> cat_ids, img_ids |-> img_ids, result_files |-> result_files]
        ELSE LET st == MetricLoop([self EXCEPT !.cat_ids = cat_ids, !.img_ids = img_ids],
                                  result_files, env, 1, st0)
             IN  [eval_results |-> st.eval_results,
                  calls |-> Cleanup(created, st).calls,
                  tmp_dir |-> Cleanup(created, st).tmp_dir,
                  cat_ids |-> cat_ids, img_ids |-> img_ids,
                  result_files |-> result_files]

\* ------------------------------------------------------------ add
\* lines 149-152: the records before the first non-dict are appended, then the
\* assertion raises
RECURSIVE AddLoop(_, _, _)
AddLoop(buf, predictions, i) ==
    IF i > Len(predictions) THEN [results |-> buf, exc |-> ""]
    ELSE IF ~IsDict(predictions[i]) THEN [results |-> buf, exc |-> "AssertionError"]
    ELSE AddLoop(Append(buf, predictions[i]), predictions, i + 1)

\* ------------------------------------------------------------ __call__
NoFiles == [m \in MetricNames |-> 0]

NoOutcome == [eval_results |-> <<>>, calls |-> <<>>, tmp_dir |-> "none",
              result_files |-> NoFiles]

NoEnv == [keep |-> [m \in MetricNames |-> FALSE], seed |-> 0]

StatelessCall_NoRecover(self, predictions, env) ==
    LET added == AddLoop(<<>>, predictions, 1)
        out == ComputeMetric([self EXCEPT !.results = added.results],
                             added.results, env)
    IN  IF added.exc # ""
        THEN [self |-> [self EXCEPT !.results = added.results],
              exc |-> added.exc, out |-> NoOutcome]
        ELSE [self |-> [self EXCEPT !.results = added.results,
                                    !.cat_ids = out.cat_ids, !.img_ids = out.img_ids],
              exc |-> "",
              out |-> [f \in DOMAIN NoOutcome |-> out[f]]]

\* lines 157-173: cache the states, score the one-off predictions on an empty
\* buffer, recover the states; an exception leaves before the recovery
StatelessCall(self, predictions, env) ==
    LET cache_results == self.results
        cache_lvis_api == self.lvis_api
        cache_cat_ids == self.cat_ids
        cache_img_ids == self.img_ids
        added == AddLoop(<<>>, predictions, 1)
        out == ComputeMetric([self EXCEPT !.results = added.results],
                             added.results, env)
    IN  IF added.exc # ""
        THEN [self |-> [self EXCEPT !.results = added.results],
              exc |-> added.exc, out |-> NoOutcome]
        ELSE [self |-> [self EXCEPT !.results = cache_results,
                                    !.lvis_api = cache_lvis_api,
                                    !.cat_ids = cache_cat_ids,
                                    !.img_ids = cache_img_ids],
              exc |-> "",
              out |-> [f \in DOMAIN NoOutcome |-> out[f]]]

\* ------------------------------------------------------------ greedy matching
\* overlaps (in tenths) a detection can have with a ground-truth instance
IoUVals == {2, 6, 9}
\* IoU thresholds (in tenths) a unit is matched at
Thrs == {8}
\* confidence scores
Scores == {1, 2}

\* one (image, category, IoU threshold) unit: detections in input order, each
\* with its score and its overlap with every ground-truth instance
MatchUnits ==
    UNION {
        [dts : [1..nd -> [score : Scores, iou : [1..ng -> IoUVals]]],
         gt_ignore : [1..ng -> BOOLEAN],
         thr : Thrs, non_exhaustive : BOOLEAN, negative : BOOLEAN]
        : nd \in 1..MaxDt, ng \in 0..MaxGt}

\* detections by descending score, ties in input order
RECURSIVE InsertByScore(_, _)
InsertByScore(sorted, d) ==
    IF sorted = <<>> THEN <<d>>
    ELSE IF Head(sorted).score >= d.score
         THEN <<Head(sorted)>> \o InsertByScore(Tail(sorted), d)
         ELSE <<d>> \o sorted

RECURSIVE SortByScore(_)
SortByScore(dts) ==
    IF dts = <<>> THEN <<>>
    ELSE InsertByScore(SortByScore(SubSeq(dts, 1, Len(dts) - 1)), dts[Len(dts)])

\* the unmatched instance of maximum overlap (the first of them), 0 if none
BestGt(d, avail) ==
    IF avail = {} THEN 0
    ELSE CHOOSE g \in avail :
            /\ \A h \in avail : d.iou[h] <= d.iou[g]
            /\ \A h \in avail : d.iou[h] = d.iou[g] => g <= h

Classify_PenalizeNonExhaustive(unit, d, avail) ==
    LET g == BestGt(d, avail)
    IN  IF g # 0 /\ d.iou[g] >= unit.thr /\ ~unit.gt_ignore[g]
        THEN [kind |-> "tp", gt |-> g]
        ELSE IF (g # 0 /\ unit.gt_ignore[g]) \/ unit.negative
             THEN [kind |-> "ignore", gt |-> 0]
             ELSE [kind |-> "fp", gt |-> 0]

\* steps 1-4 for one detection: true positive on the best unmatched instance
\* when it reaches the threshold and is not flagged ignore; otherwise excluded
\* when the category is non-exhaustive or negative on the image or the best
\* instance is flagged ignore; otherwise a false positive
Classify(unit, d, avail) ==
    LET g == BestGt(d, avail)
    IN  IF g # 0 /\ d.iou[g] >= unit.thr /\ ~unit.gt_ignore[g]
        THEN [kind |-> "tp", gt |-> g]
        ELSE IF unit.non_exhaustive \/ (g # 0 /\ unit.gt_ignore[g]) \/ unit.negative
             THEN [kind |-> "ignore", gt |-> 0]
             ELSE [kind |-> "fp", gt |-> 0]

\* ------------------------------------------------------------ state
VARIABLES
    cfg,          \* the constructor's arguments kept on self
    _results,     \* self._results
    cat_ids,      \* self.cat_ids
    img_ids,      \* self.img_ids
    _lvis_api,    \* self._lvis_api
    last,         \* the latest operation: the records handed to add, the
                  \* collaborators' answers, the exception ("" when none)
                  \* and the outcome
    added,        \* history: the records add / add_predictions appended
    callRaised,   \* history: some stateless call raised
    match         \* the matcher's unit, the detections still to take, the
                  \* unmatched instances and the decisions made

vars == <<cfg, _results, cat_ids, img_ids, _lvis_api, last, added, callRaised, match>>

Self ==
    [metrics |-> cfg.metrics, metric_items |-> cfg.metric_items,
     classwise |-> cfg.classwise, format_only |-> cfg.format_only,
     outfile_prefix |-> cfg.outfile_prefix, proposal_nums |-> cfg.proposal_nums,
     results |-> _results, cat_ids |-> cat_ids, img_ids |-> img_ids,
     lvis_api |-> _lvis_api]

Last(op, args, env, exc, out) ==
    [op |-> op, args |-> args, env |-> env, exc |-> exc,
     eval_results |-> out.eval_results, calls |-> out.calls,
     tmp_dir |-> out.tmp_dir, result_files |-> out.result_files]

NoUnit == [dts |-> <<>>, gt_ignore |-> <<>>, thr |-> 0,
           non_exhaustive |-> FALSE, negative |-> FALSE]

Matching(unit) ==
    [unit |-> unit, todo |-> SortByScore(unit.dts),
     avail |-> DOMAIN unit.gt_ignore, decided |-> <<>>]

\* the constructor's default arguments
BufferConfigs ==
    {c \in Configs : /\ c.metrics = <<"bbox">>
                     /\ c.metric_items = None
                     /\ ~c.classwise /\ ~c.format_only
                     /\ c.outfile_prefix = None}

\* the wrapper after __init__: nothing accumulated, cat_ids and img_ids unset
InitSelf ==
    /\ cfg \in Configs
    /\ _results = <<>>
    /\ cat_ids = <<>>
    /\ img_ids = <<>>
    /\ _lvis_api = LvisApi
    /\ last = Last("__init__", <<>>, NoEnv, "", NoOutcome)
    /\ added = <<>>
    /\ callRaised = FALSE

Init ==
    /\ InitSelf
    /\ cfg \in BufferConfigs
    /\ match = Matching(NoUnit)

\* add(predictions)
Add ==
    \E predictions \in SeqsUpTo(Records, MaxPreds) :
        LET r == AddLoop(_results, predictions, 1)
        IN  /\ Len(_results) + Len(predictions) <= MaxBuf
            /\ Len(added) + Len(predictions) <= MaxBuf
            /\ _results' = r.results
            /\ added' = added \o SubSeq(r.results, Len(_results) + 1, Len(r.results))
            /\ last' = Last("add", predictions, NoEnv, r.exc, NoOutcome)
            /\ UNCHANGED <<cfg, cat_ids, img_ids, _lvis_api, callRaised, match>>

\* add_predictions(predictions): line 128, self.add(predictions)
AddPredictions ==
    \E predictions \in SeqsUpTo(Records, MaxPreds) :
        LET r == AddLoop(_results, predictions, 1)
        IN  /\ Len(_results) + Len(predictions) <= MaxBuf
            /\ Len(added) + Len(predictions) <= MaxBuf
            /\ _results' = r.results
            /\ added' = added \o SubSeq(r.results, Len(_results) + 1, Len(r.results))
            /\ last' = Last("add_predictions", predictions, NoEnv, r.exc, NoOutcome)
            /\ UNCHANGED <<cfg, cat_ids, img_ids, _lvis_api, callRaised, match>>

\* __call__(predictions)
Call ==
    \E predictions \in SeqsUpTo(Records, MaxPreds), env \in CallEnvs :
        LET r == StatelessCall(Self, predictions, env)
        IN  /\ _results' = r.self.results
            /\ cat_ids' = r.self.cat_ids
            /\ img_ids' = r.self.img_ids
            /\ _lvis_api' = r.self.lvis_api
            /\ last' = Last("__call__", <<>>, IF r.exc = "" THEN env ELSE NoEnv, r.exc, r.out)
            /\ callRaised' = (callRaised \/ r.exc # "")
            /\ UNCHANGED <<cfg, added, match>>

\* compute_metric(self._results)
Compute ==
    \E env \in Envs :
        LET out == ComputeMetric(Self, _results, env)
        IN  /\ cat_ids' = out.cat_ids
            /\ img_ids' = out.img_ids
            /\ last' = Last("compute_metric", <<>>, env, "", out)
            /\ UNCHANGED <<cfg, _results, _lvis_api, added, callRaised, match>>

Next == Add \/ AddPredictions \/ Call \/ Compute

\* the buffer and its operations, from construction
Spec == Init /\ [][Next]_vars

\* compute_metric over every configuration, on the buffer one add has filled
InitEval ==
    /\ match = Matching(NoUnit)
    /\ cfg \in Configs
    /\ _results \in SeqsUpTo(Dicts, MaxPreds)
    /\ cat_ids = <<>>
    /\ img_ids = <<>>
    /\ _lvis_api = LvisApi
    /\ last = Last("add", _results, NoEnv, "", NoOutcome)
    /\ added = _results
    /\ callRaised = FALSE

NextEval == Compute

SpecEval == InitEval /\ [][NextEval]_vars

\* the matcher on every unit, the wrapper as constructed by default
InitMatch ==
    /\ InitSelf
    /\ cfg \in BufferConfigs
    /\ match \in {Matching(u) : u \in MatchUnits}

\* the next detection, in descending score order, is decided
MatchStep ==
    /\ match.todo # <<>>
    /\ LET d == Head(match.todo)
           c == Classify(match.unit, d, match.avail)
       IN  match' = [match EXCEPT !.todo = Tail(@),
                                  !.avail = IF c.kind = "tp" THEN @ \ {c.gt} ELSE @,
                                  !.decided = Append(@, c.kind)]
    /\ UNCHANGED <<cfg, _results, cat_ids, img_ids, _lvis_api, last, added, callRaised>>

NextMatch == MatchStep

SpecMatch == InitMatch /\ [][NextMatch]_vars

\* ------------------------------------------------------------ properties
Computed == last.op = "compute_metric" /\ last.exc = ""

\* the metric's evaluate / accumulate / summarize pipeline was run
Completed(m) == Ev("summarize", m) \in Range(last.calls)

\* names of the engine's result items when `m` is evaluated
EngineNames(m) ==
    APNames \o ARNames(IF m = "proposal" THEN cfg.proposal_nums ELSE EngineMaxDets)

\* the keys under which the values of metric `m` can be stored
ValueKeys(m) ==
    IF m = "proposal" THEN Range(EngineNames(m))
    ELSE {m \o "_" \o n : n \in Range(EngineNames(m))}

\* the entries of the output that hold values of metric `m`, in output order
Emitted(m) == SelectSeq(last.eval_results, LAMBDA e : e.k \in ValueKeys(m))

\* C1: as long as every stateless call has returned normally, the buffer is
\* the in-order concatenation of exactly the records appended by add /
\* add_predictions: a stateless call leaves it as it was and none of its
\* one-off records stays in it.
C1_StatelessCallKeepsBuffer == ~callRaised => _results = added

C1_Witness ==
    /\ last.op = "__call__" /\ last.exc = ""
    /\ last.result_files["bbox"] > 0
    /\ Len(_results) = MaxBuf
    /\ ~callRaised

\* C2: after compute_metric outside format-only mode, every target metric
\* whose result file holds detections has been evaluated, also when an
\* earlier target metric had none.
C2_EmptyMetricAloneSkipped ==
    (Computed /\ ~cfg.format_only) =>
        \A i \in 1..Len(cfg.metrics) :
            last.result_files[cfg.metrics[i]] > 0 => Completed(cfg.metrics[i])

\* C3: after add / add_predictions, every dict record of the sequence handed
\* in, before and after a non-dict one, is in the buffer: the buffer ends with
\* the dict records of the sequence, in order.
C3_OnlyInvalidRecordRejected ==
    last.op \in {"add", "add_predictions"} =>
        LET valid == SelectSeq(last.args, IsDict)
        IN  /\ Len(_results) >= Len(valid)
            /\ SubSeq(_results, Len(_results) - Len(valid) + 1, Len(_results)) = valid

\* C4: in format-only mode compute_metric does the results2json conversion
\* exactly once, calls nothing else of the engine (no LVISResults, evaluate,
\* accumulate or summarize) and returns an empty mapping.
C4_FormatOnlyConvertsOnly ==
    (Computed /\ cfg.format_only) =>
        /\ last.eval_results = <<>>
        /\ last.calls = <<Ev("results2json", "")>>

C4_Witness ==
    /\ Computed /\ cfg.format_only
    /\ Len(cfg.metrics) = 2
    /\ \A i \in 1..Len(cfg.metrics) : last.result_files[cfg.metrics[i]] > 0

\* the list stored under f'{m}_result' is the percentage strings of the values
\* stored under f'{m}_{item}', one per value, in the same order
ResultListMatches(m, values) ==
    /\ HasKey(last.eval_results, m \o "_result")
    /\ Get(last.eval_results, m \o "_result") =
           [kind |-> "list",
            items |-> [i \in 1..Len(values) |-> PercentStr(values[i].v)]]

PrefixedValues(m) ==
    SelectSeq(last.eval_results,
              LAMBDA e : e.k \in {m \o "_" \o n : n \in Range(EngineNames(m))})

\* C5 as stated: every evaluated target metric, proposal included, has its
\* f'{metric}_result' list and its values under f'{metric}_{item}' keys.
C5_EveryMetricListsItsValues ==
    Computed =>
        \A i \in 1..Len(cfg.metrics) :
            LET m == cfg.metrics[i]
            IN  Completed(m) =>
                    /\ ResultListMatches(m, PrefixedValues(m))
                    /\ Len(PrefixedValues(m)) = Len(Emitted(m))

\* C5 amended: every evaluated bbox / segm metric has its f'{metric}_result'
\* list, one percentage string per value stored under f'{metric}_{item}', in
\* the same order; the proposal metric stores its values under the bare item
\* names and has no 'proposal_result' entry.
C5_DetMetricListsItsValues ==
    Computed =>
        \A i \in 1..Len(cfg.metrics) :
            LET m == cfg.metrics[i]
            IN  Completed(m) =>
                    IF m = "proposal"
                    THEN /\ ~HasKey(last.eval_results, "proposal_result")
                         /\ PrefixedValues(m) = <<>>
                    ELSE /\ ResultListMatches(m, Emitted(m))
                         /\ Emitted(m) = PrefixedValues(m)

C5_Witness ==
    /\ Computed
    /\ cfg.metrics = <<"bbox", "segm">>
    /\ cfg.metric_items.isNone
    /\ Completed("bbox") /\ Completed("segm")
    /\ Len(Emitted("segm")) = Len(APNames)
    /\ Get(last.eval_results, "bbox_result").items[1] = "0.0"
    /\ Get(last.eval_results, "bbox_result").items[2] = "12.35"
    /\ Get(last.eval_results, "bbox_result").items[7] = "-100.0"

RECURSIVE SumOver(_, _)
SumOver(S, f) ==
    IF S = {} THEN 0
    ELSE LET x == CHOOSE y \in S : TRUE
         IN  f[x] + SumOver(S \ {x}, f)

\* the cells of category idx at area range "all", over all IoU thresholds and
\* recall levels
CatCells(idx) == {<<t, r, idx, 1>> : t \in 1..NumThrs, r \in 1..NumRecalls}

Sentinels(P, idx) == {c \in CatCells(idx) : P[c] = -100000}

\* C6: with classwise on, every evaluated bbox / segm metric has one
\* per-category precision entry per category of cat_ids, listed in cat_ids
\* order; the entry is nan exactly when all the category's cells at area
\* range "all" are -1, and otherwise the mean of its cells other than -1.
C6_ClasswisePrecision ==
    (Computed /\ cfg.classwise) =>
        \A i \in 1..Len(cfg.metrics) :
            LET m == cfg.metrics[i]
                P == Precisions(last.env.seed)
            IN  (Completed(m) /\ m # "proposal") =>
                    /\ HasKey(last.eval_results, m \o "_classwise_result")
                    /\ Len(Get(last.eval_results, m \o "_classwise_result").items)
                           = Len(cat_ids)
                    /\ \A idx \in 1..Len(cat_ids) :
                           LET nm == CatName(cat_ids[idx])
                               key == m \o "_" \o nm \o "_precision"
                               ap == Get(last.eval_results, key)
                               pair == Get(last.eval_results,
                                           m \o "_classwise_result").items[idx]
                               nsent == Cardinality(Sentinels(P, idx))
                               ncell == Cardinality(CatCells(idx))
                           IN  /\ HasKey(last.eval_results, key)
                               /\ pair = <<nm, NpPercentStr(ap)>>
                               /\ (ap.kind = "nan") <=> (nsent = ncell)
                               /\ ap.kind = "float" =>
                                      ap.num * (ncell - nsent) =
                                          ap.den * (SumOver(CatCells(idx), P)
                                                    + (100000 * nsent))

C6_Witness ==
    /\ Computed /\ cfg.classwise
    /\ cfg.metrics = <<"bbox", "segm">>
    /\ Completed("segm")
    /\ Len(cat_ids) = NumCats
    /\ \E a, b \in 1..NumCats :
          /\ Get(last.eval_results, "segm_" \o CatName(a) \o "_precision").kind = "nan"
          /\ Get(last.eval_results, "segm_" \o CatName(b) \o "_precision").kind = "float"
          /\ Sentinels(Precisions(last.env.seed), b) # {}

C9_FailedCallRestoresState ==
    [][(last'.op = "__call__" /\ last'.exc # "") =>
           /\ _results' = _results
           /\ cat_ids' = cat_ids
           /\ img_ids' = img_ids
           /\ _lvis_api' = _lvis_api]_vars

\* the allow-list in force for metric m: the configured one, else m's default
Effective(m) ==
    IF cfg.metric_items.isNone
    THEN IF m = "proposal" THEN ARNames(cfg.proposal_nums) ELSE APNames
    ELSE cfg.metric_items.val

\* C10: for every evaluated target metric the values in the output are those
\* of the engine's result items named in the allow-list in force for that
\* metric, in the engine's order: the configured list, else the metric's own
\* default, whatever metric was evaluated before it.
C10_ItemsFollowOwnAllowList ==
    Computed =>
        \A i \in 1..Len(cfg.metrics) :
            LET m == cfg.metrics[i]
                want == SelectSeq(
                            GetResults(m, IF m = "proposal" THEN cfg.proposal_nums
                                          ELSE EngineMaxDets, last.env.seed),
                            LAMBDA e : e.k \in Range(Effective(m)))
            IN  Completed(m) =>
                    /\ Len(Emitted(m)) = Len(want)
                    /\ \A j \in 1..Len(want) :
                           /\ Emitted(m)[j].k =
                                  (IF m = "proposal" THEN want[j].k
                                   ELSE m \o "_" \o want[j].k)
                           /\ IF m = "proposal"
                              THEN /\ Emitted(m)[j].v.num % 100 = 0
                                   /\ Abs(Emitted(m)[j].v.num - want[j].v) <= 50
                              ELSE Emitted(m)[j].v = Float(want[j].v)

C10_Witness ==
    /\ Computed
    /\ cfg.metrics = <<"proposal", "bbox">>
    /\ cfg.metric_items.isNone
    /\ Completed("proposal") /\ Completed("bbox")
    /\ Keys(Emitted("proposal")) = ARNames(ProposalNums)
    /\ Keys(Emitted("bbox")) = [j \in 1..Len(APNames) |-> "bbox_" \o APNames[j]]

\* C8: in a unit whose category is non-exhaustive on the image, no detection
\* is decided a false positive.
C8_NonExhaustiveNeverFalsePositive ==
    match.unit.non_exhaustive => "fp" \notin Range(match.decided)

C8_Witness ==
    /\ match.unit.non_exhaustive
    /\ DOMAIN match.unit.gt_ignore = {}
    /\ match.todo = <<>>
    /\ Len(match.decided) = MaxDt
    /\ "ignore" \in Range(match.decided)

====
